---- MODULE Spec2Model ----
(***************************************************************************)
(* A model of scrubadub's Scrubber (src/scrubadub/scrubbers.py): the       *)
(* detector and post-processor registries, the sort and merge of Filth,    *)
(* the reconstruction of the clean text and the clean / clean_documents /  *)
(* iter_filth / iter_filth_documents pipelines.                            *)
(*                                                                         *)
(* A Python str is the sequence of its code points, so that concatenation, *)
(* slicing, str() and the lexicographic order of str are what Python       *)
(* computes.  Python's None is the one-element sequence <<-1>>, which is   *)
(* the code-point sequence of no str.                                      *)
(***************************************************************************)
EXTENDS Integers, Sequences, FiniteSets, TLC

VARIABLES
    detectors,        \* Scrubber._detectors: the dict, as its items in insertion order
    post_processors,  \* Scrubber._post_processors: the list
    log,              \* the two registry calls before the most recent one, oldest first
    call,             \* the arguments of the most recent pipeline call
    ret,              \* what that call returned (or yielded)
    pp_calls,         \* the process_filth invocations that call made, in order:
                      \* [name, input, output]
    pc                \* "ready": the call is still to run; "done": it has returned

vars == <<detectors, post_processors, log, call, ret, pp_calls, pc>>

----------------------------------------------------------------------------
(* Bounds of the model. *)

\* offsets of Filth handed to _merge_filths range over 0..MaxPos
MaxPos == 3
\* _merge_filths is applied to lists of at most MaxSpans Filth
MaxSpans == 3
\* _replace_text is applied to lists of at most MaxReplaceSpans Filth
MaxReplaceSpans == 2
\* add_post_processor is called with index None or in -MaxIndex..MaxIndex
MaxIndex == 1
\* the texts of the documents of one clean_documents / iter_filth_documents call
\* have at most MaxChars characters in all
MaxChars == 3
\* a list of documents has at most MaxDocs documents
MaxDocs == 2

----------------------------------------------------------------------------
(* Python values. *)

None == <<-1>>

\* str(x) for x a str or None
PyStr(x) == IF x = None THEN <<78, 111, 110, 101>> ELSE x

\* str(i) for a list index 0..9
StrOfIndex(i) == <<48 + i>>

\* s < t in Python's order of str
RECURSIVE StrLess(_, _)
StrLess(s, t) ==
    IF t = <<>> THEN FALSE
    ELSE IF s = <<>> THEN TRUE
    ELSE IF Head(s) # Head(t) THEN Head(s) < Head(t)
    ELSE StrLess(Tail(s), Tail(t))

Min(a, b) == IF a <= b THEN a ELSE b
Max(a, b) == IF a >= b THEN a ELSE b

\* s[i:j] for 0 <= i, any j (an empty slice when j <= i, clipped at len(s))
Slice(s, i, j) ==
    LET hi == Min(j, Len(s))
    IN  IF i >= hi THEN <<>> ELSE SubSeq(s, i + 1, hi)

\* s[i:]
SliceFrom(s, i) == Slice(s, i, Len(s))

RECURSIVE Concat(_)
Concat(chunks) ==
    IF chunks = <<>> THEN <<>> ELSE Head(chunks) \o Concat(Tail(chunks))

Range(s) == {s[i] : i \in DOMAIN s}

----------------------------------------------------------------------------
(* Filth.  beg, end: offsets; document_name: a str or None; kinds: the     *)
(* types of the Filth it was merged from, in merge order;                  *)
(* replacement_string: a str or None.                                      *)

NAME == <<78, 65, 77, 69>>
EMAIL == <<69, 77, 65, 73, 76>>

Filth(b, e, doc, kind, repl) ==
    [beg |-> b, end |-> e, document_name |-> doc, kinds |-> <<kind>>,
     replacement_string |-> repl]

\* Filth(): the cursor _replace_text starts from
EmptyFilth == [beg |-> 0, end |-> 0, document_name |-> None, kinds |-> <<>>,
               replacement_string |-> None]

\* filth.merge(other_filth)
FilthMerge(a, b) ==
    [beg |-> Min(a.beg, b.beg), end |-> Max(a.end, b.end),
     document_name |-> a.document_name, kinds |-> a.kinds \o b.kinds,
     replacement_string |-> None]

RECURSIVE JoinPlus(_)
JoinPlus(kinds) ==
    IF kinds = <<>> THEN <<>>
    ELSE IF Len(kinds) = 1 THEN kinds[1]
    ELSE kinds[1] \o <<43>> \o JoinPlus(Tail(kinds))

\* filth.replace_with(**kwargs): "{{" + placeholder + "}}"
ReplaceWith(f) == <<123, 123>> \o JoinPlus(f.kinds) \o <<125, 125>>

----------------------------------------------------------------------------
(* Scrubber._sort_filths: list.sort (stable) on the key                    *)
(* (str(document_name), beg, -end).                                        *)

SortKeyLess(a, b) ==
    LET da == PyStr(a.document_name)
        db == PyStr(b.document_name)
    IN  IF da # db THEN StrLess(da, db)
        ELSE IF a.beg # b.beg THEN a.beg < b.beg
        ELSE (0 - a.end) < (0 - b.end)

\* x placed behind every element whose key is not greater: the sort is stable
RECURSIVE InsertSorted(_, _)
InsertSorted(sorted, x) ==
    IF sorted = <<>> THEN <<x>>
    ELSE IF SortKeyLess(x, Head(sorted)) THEN <<x>> \o sorted
    ELSE <<Head(sorted)>> \o InsertSorted(Tail(sorted), x)

RECURSIVE sort_filths(_)
sort_filths(filth_list) ==
    IF filth_list = <<>> THEN <<>>
    ELSE InsertSorted(sort_filths(SubSeq(filth_list, 1, Len(filth_list) - 1)),
                      filth_list[Len(filth_list)])

----------------------------------------------------------------------------
(* Scrubber._merge_filths *)

\* sorted(names) for a set of str
RECURSIVE SortedNames(_)
SortedNames(S) ==
    IF S = {} THEN <<>>
    ELSE LET m == CHOOSE x \in S : \A y \in S \ {x} : StrLess(x, y)
         IN  <<m>> \o SortedNames(S \ {m})

\* DocumentNames with None appended behind the names instead of put in front
DocumentNamesNoneLast(filth_list) ==
    LET document_name_set == {f.document_name : f \in Range(filth_list)}
    IN  IF None \in document_name_set
        THEN SortedNames(document_name_set \ {None}) \o <<None>>
        ELSE SortedNames(document_name_set)

\* lines 331-338: None first, then the names in ascending order
DocumentNames(filth_list) ==
    LET document_name_set == {f.document_name : f \in Range(filth_list)}
    IN  IF None \in document_name_set
        THEN <<None>> \o SortedNames(document_name_set \ {None})
        ELSE SortedNames(document_name_set)

\* MergeRun with the test filth.end <= next_filth.beg: touching Filth left apart
RECURSIVE MergeRunTouchApart(_, _)
MergeRunTouchApart(filth, rest) ==
    IF rest = <<>> THEN <<filth>>
    ELSE IF filth.end <= Head(rest).beg
         THEN <<filth>> \o MergeRunTouchApart(Head(rest), Tail(rest))
         ELSE MergeRunTouchApart(FilthMerge(filth, Head(rest)), Tail(rest))

\* lines 343-350: the running merge over one document's sorted list
RECURSIVE MergeRun(_, _)
MergeRun(filth, rest) ==
    IF rest = <<>> THEN <<filth>>
    ELSE IF filth.end < Head(rest).beg
         THEN <<filth>> \o MergeRun(Head(rest), Tail(rest))
         ELSE MergeRun(FilthMerge(filth, Head(rest)), Tail(rest))

MergeDocument(filth_list, document_name) ==
    LET OfDoc(f) == f.document_name = document_name
        document_filth_list == sort_filths(SelectSeq(filth_list, OfDoc))
    IN  MergeRun(Head(document_filth_list), Tail(document_filth_list))

RECURSIVE MergeDocuments(_, _)
MergeDocuments(filth_list, document_names) ==
    IF document_names = <<>> THEN <<>>
    ELSE MergeDocument(filth_list, Head(document_names))
         \o MergeDocuments(filth_list, Tail(document_names))

merge_filths(filth_list) ==
    IF filth_list = <<>> THEN <<>>
    ELSE MergeDocuments(filth_list, DocumentNames(filth_list))

---------------------------------------------------------------------------------------------------------------------------------------------------
(* Scrubber._replace_text *)

\* lines 205-212: the chunks appended from the cursor `filth` on
RECURSIVE CleanChunks(_, _, _)
CleanChunks(text, filth, filth_list) ==
    IF filth_list = <<>> THEN SliceFrom(text, filth.end)
    ELSE LET next_filth == Head(filth_list)
         IN  Slice(text, filth.end, next_filth.beg)
             \o (IF next_filth.replacement_string # None
                 THEN next_filth.replacement_string
                 ELSE ReplaceWith(next_filth))
             \o CleanChunks(text, next_filth, Tail(filth_list))

\* FilterDocument without the filter on document_name
FilterDocumentNone(filth_list, document_name) == filth_list

\* lines 199-200
FilterDocument(filth_list, document_name) ==
    LET OfDoc(f) == f.document_name = document_name
    IN  IF document_name # None THEN SelectSeq(filth_list, OfDoc) ELSE filth_list

replace_text(text, filth_list, document_name) ==
    CleanChunks(text, EmptyFilth, sort_filths(FilterDocument(filth_list, document_name)))

-----
(* The calls of the pure steps, on inputs drawn from bounded sets. *)

NoDocuments == [shape |-> "list", items |-> <<>>]

NoCall == [op |-> "none", text |-> <<>>, filth_list |-> <<>>,
           document_name |-> None, documents |-> NoDocuments,
           run_post_processors |-> TRUE]

DocA == <<97>>
DocB == <<98>>

MergeDocs == {None, DocA, DocB}

MergeInputs ==
    {Filth(b, e, d, NAME, None) : b \in 0..MaxPos, e \in 0..MaxPos, d \in MergeDocs}

MergeFilthSet == {f \in MergeInputs : f.beg <= f.end}

\* the arguments of a call list(Scrubber._merge_filths(filth_list))
InitMerge ==
    /\ detectors = <<>>
    /\ post_processors = <<>>
    /\ log = <<>>
    /\ \E k \in 0..MaxSpans : \E fl \in [1..k -> MergeFilthSet] :
            call = [NoCall EXCEPT !.op = "_merge_filths", !.filth_list = fl]
    /\ ret = <<>>
    /\ pp_calls = <<>>
    /\ pc = "ready"

\* list(Scrubber._merge_filths(filth_list))
MergeFilths ==
    /\ pc = "ready"
    /\ call.op = "_merge_filths"
    /\ ret' = merge_filths(call.filth_list)
    /\ pc' = "done"
    /\ UNCHANGED <<detectors, post_processors, log, call, pp_calls>>

NextMerge == MergeFilths

SpecMerge == InitMerge /\ [][NextMerge]_vars

----------------------------------------------------------------------------
(* Calls of _replace_text. *)

FIXED == <<88>>

\* "a", "ab", "abc", ...: every character of the text is a different one
TextOfLen(n) == [i \in 1..n |-> 96 + i]

ReplaceInputs(n) ==
    {Filth(b, e, d, k, r) : b \in 0..n, e \in 0..n, d \in {None, DocA},
                            k \in {NAME, EMAIL}, r \in {None, FIXED}}

ReplaceFilthSet(n) == {f \in ReplaceInputs(n) : f.beg <= f.end}

InitReplace ==
    /\ detectors = <<>>
    /\ post_processors = <<>>
    /\ log = <<>>
    /\ \E n \in 0..MaxPos, k \in 0..MaxReplaceSpans, d \in {None, DocA} :
         \E fl \in [1..k -> ReplaceFilthSet(n)] :
            call = [NoCall EXCEPT !.op = "_replace_text", !.text = TextOfLen(n),
                                  !.filth_list = fl, !.document_name = d]
    /\ ret = <<>>
    /\ pp_calls = <<>>
    /\ pc = "ready"

\* Scrubber._replace_text(text, filth_list, document_name)
ReplaceText ==
    /\ pc = "ready"
    /\ call.op = "_replace_text"
    /\ ret' = replace_text(call.text, call.filth_list, call.document_name)
    /\ pc' = "done"
    /\ UNCHANGED <<detectors, post_processors, log, call, pp_calls>>

NextReplace == ReplaceText

SpecReplace == InitReplace /\ [][NextReplace]_vars

----------------------------------------------------------------------------
(* The registries.  Names of detectors and post-processors are only ever   *)
(* compared for equality and are written as TLA+ strings.                  *)
(*                                                                         *)
(* An argument of add_* / remove_* is one of                               *)
(*   [is |-> "type", subclass |-> TRUE, name |-> n]  a subclass of Detector *)
(*        (PostProcessor) whose instances are named n                      *)
(*   [is |-> "type", subclass |-> FALSE, ...]  another class, without name *)
(*   [is |-> "instance", name |-> n]  an instance of Detector (PostProcessor) *)
(*   [is |-> "str", name |-> n]       the str n                            *)
(*   [is |-> "other", ...]            any other value, such as 42          *)

Names(registry) == {registry[i].name : i \in DOMAIN registry}

\* detectors.detector_configuration / post_processors.post_processor_configuration:
\* the names that resolve to a class, whose instances carry that name
DetectorCatalog == {"email", "name"}
PostProcessorCatalog == {"remover", "replacer"}

Arg(is, subclass, name) == [is |-> is, subclass |-> subclass, name |-> name]

ArgsOver(catalog) ==
    {Arg("type", TRUE, n) : n \in catalog}
    \cup {Arg("instance", TRUE, n) : n \in catalog}
    \cup {Arg("str", FALSE, n) : n \in catalog \cup {"unknown"}}
    \cup {Arg("type", FALSE, "-"), Arg("other", FALSE, "-")}

\* a registered detector: its name and whether it has iter_filth_documents
\* (the detectors add_detector makes from a class or a catalog name have not)
DetectorObject(name) == [name |-> name, joint |-> FALSE]

PostProcessorObject(name) == [name |-> name]

\* index=None is <<>>, index=i is <<i>>
NoIndex == <<>>

Indexes == {NoIndex} \cup {<<i>> : i \in (0 - MaxIndex)..MaxIndex}

NoEntry == [op |-> "none", name |-> "-", raised |-> "returned"]

\* the log once the call before this one has moved into it; a call that named
\* no detector or post-processor of the catalogs is logged as NoEntry
Logged ==
    <<log[2],
      IF call.arg.name \in DetectorCatalog \cup PostProcessorCatalog
      THEN [op |-> call.op, name |-> call.arg.name, raised |-> ret]
      ELSE NoEntry>>

\* Scrubber(detector_list=[], post_processor_list=[])
InitRegistry ==
    /\ detectors = <<>>
    /\ post_processors = <<>>
    /\ log = <<NoEntry, NoEntry>>
    /\ call = [op |-> "none", arg |-> Arg("other", FALSE, "-"), index |-> NoIndex]
    /\ ret = "returned"
    /\ pp_calls = <<>>
    /\ pc = "ready"

\* Scrubber._check_and_add_detector(detector), the detector an instance named `name`
check_and_add_detector(name) ==
    IF name \in Names(detectors)
    THEN [raised |-> "KeyError", registry |-> detectors]
    ELSE [raised |-> "returned", registry |-> Append(detectors, DetectorObject(name))]

\* Scrubber.add_detector(detector): the exception raised and the registry left
add_detector(arg) ==
    IF arg.is = "type"
    THEN IF ~arg.subclass
         THEN [raised |-> "TypeError", registry |-> detectors]
         ELSE check_and_add_detector(arg.name)
    ELSE IF arg.is = "instance"
    THEN check_and_add_detector(arg.name)
    ELSE IF arg.is = "str"
    THEN IF arg.name \in DetectorCatalog
         THEN check_and_add_detector(arg.name)
         ELSE [raised |-> "ValueError", registry |-> detectors]
    ELSE [raised |-> "returned", registry |-> detectors]

AddDetector ==
    \E arg \in ArgsOver(DetectorCatalog) :
        LET r == add_detector(arg)
        IN  /\ call' = [op |-> "add_detector", arg |-> arg, index |-> NoIndex]
            /\ ret' = r.raised
            /\ log' = Logged
            /\ detectors' = r.registry
            /\ post_processors' = post_processors
            /\ UNCHANGED <<pp_calls, pc>>

\* self._detectors.pop(name)
PopDetector(name) ==
    LET Others(d) == d.name # name
    IN  IF name \in Names(detectors)
        THEN [raised |-> "returned", registry |-> SelectSeq(detectors, Others)]
        ELSE [raised |-> "KeyError", registry |-> detectors]

\* Scrubber.remove_detector(detector)
remove_detector(arg) ==
    IF arg.is = "type"
    THEN IF ~arg.subclass
         THEN [raised |-> "AttributeError", registry |-> detectors]
         ELSE PopDetector(arg.name)
    ELSE IF arg.is \in {"instance", "str"}
    THEN PopDetector(arg.name)
    ELSE [raised |-> "returned", registry |-> detectors]

RemoveDetector ==
    \E arg \in ArgsOver(DetectorCatalog) :
        LET r == remove_detector(arg)
        IN  /\ call' = [op |-> "remove_detector", arg |-> arg, index |-> NoIndex]
            /\ ret' = r.raised
            /\ log' = Logged
            /\ detectors' = r.registry
            /\ post_processors' = post_processors
            /\ UNCHANGED <<pp_calls, pc>>

\* list.insert(index, x)
ListInsert(list, index, x) ==
    LET i == IF index < 0 THEN Max(index + Len(list), 0) ELSE Min(index, Len(list))
    IN  SubSeq(list, 1, i) \o <<x>> \o SubSeq(list, i + 1, Len(list))

\* _check_and_add_post_processor without the test on the names in use
CheckAndAddPostProcessorUnchecked(name, index) ==
    [raised |-> "returned",
     registry |-> IF index = NoIndex
                  THEN Append(post_processors, PostProcessorObject(name))
                  ELSE ListInsert(post_processors, index[1], PostProcessorObject(name))]

\* Scrubber._check_and_add_post_processor(post_processor, index)
check_and_add_post_processor(name, index) ==
    IF name \in Names(post_processors)
    THEN [raised |-> "KeyError", registry |-> post_processors]
    ELSE [raised |-> "returned",
          registry |-> IF index = NoIndex
                       THEN Append(post_processors, PostProcessorObject(name))
                       ELSE ListInsert(post_processors, index[1], PostProcessorObject(name))]

\* Scrubber.add_post_processor(post_processor, index)
add_post_processor(arg, index) ==
    IF arg.is = "type"
    THEN IF ~arg.subclass
         THEN [raised |-> "TypeError", registry |-> post_processors]
         ELSE check_and_add_post_processor(arg.name, index)
    ELSE IF arg.is = "instance"
    THEN check_and_add_post_processor(arg.name, index)
    ELSE IF arg.is = "str"
    THEN IF arg.name \in PostProcessorCatalog
         THEN check_and_add_post_processor(arg.name, index)
         ELSE [raised |-> "ValueError", registry |-> post_processors]
    ELSE [raised |-> "returned", registry |-> post_processors]

AddPostProcessor ==
    \E arg \in ArgsOver(PostProcessorCatalog), index \in Indexes :
        LET r == add_post_processor(arg, index)
        IN  /\ call' = [op |-> "add_post_processor", arg |-> arg, index |-> index]
            /\ ret' = r.raised
            /\ log' = Logged
            /\ detectors' = detectors
            /\ post_processors' = r.registry
            /\ UNCHANGED <<pp_calls, pc>>

\* [x for x in self._post_processors if x.name != name]
WithoutName(name) ==
    LET Others(x) == x.name # name
    IN  SelectSeq(post_processors, Others)

\* Scrubber.remove_post_processor(post_processor)
remove_post_processor(arg) ==
    IF arg.is = "type"
    THEN IF ~arg.subclass
         THEN [raised |-> "AttributeError", registry |-> post_processors]
         ELSE [raised |-> "returned", registry |-> WithoutName(arg.name)]
    ELSE IF arg.is \in {"instance", "str"}
    THEN [raised |-> "returned", registry |-> WithoutName(arg.name)]
    ELSE [raised |-> "returned", registry |-> post_processors]

RemovePostProcessor ==
    \E arg \in ArgsOver(PostProcessorCatalog) :
        LET r == remove_post_processor(arg)
        IN  /\ call' = [op |-> "remove_post_processor", arg |-> arg, index |-> NoIndex]
            /\ ret' = r.raised
            /\ log' = Logged
            /\ detectors' = detectors
            /\ post_processors' = r.registry
            /\ UNCHANGED <<pp_calls, pc>>

NextRegistry ==
    \/ AddDetector
    \/ RemoveDetector
    \/ AddPostProcessor
    \/ RemovePostProcessor

SpecRegistry == InitRegistry /\ [][NextRegistry]_vars

----------------------------------------------------------------------------
(* The detectors and post-processors the pipelines run.  They stand for    *)
(* the plugins: pure functions of the text (detectors) and of the Filth    *)
(* list (post-processors).                                                 *)
(*   detector "name":  one Filth of type NAME per maximal run of the       *)
(*                     characters "n" and "b"                              *)
(*   detector "email": one Filth of type EMAIL per maximal run of the      *)
(*                     characters "e" and "b"                              *)
(* so that "b" is found by both (identical Filth of two types), "nb" gives *)
(* overlapping, "ne" touching and "nxe" separate Filth.                    *)

Alphabet == {110, 101, 98, 120}

FilthType(name) == IF name = "name" THEN NAME ELSE EMAIL

Matches(name, ch) ==
    IF name = "name" THEN ch \in {110, 98} ELSE ch \in {101, 98}

\* the maximal runs of matching characters from offset i on, [beg, end) each
RECURSIVE Runs(_, _, _)
Runs(name, text, i) ==
    IF i >= Len(text) THEN <<>>
    ELSE IF ~Matches(name, text[i + 1]) THEN Runs(name, text, i + 1)
    ELSE LET stops == {j \in (i + 1)..Len(text) :
                          j = Len(text) \/ ~Matches(name, text[j + 1])}
             e == CHOOSE j \in stops : \A k \in stops : j <= k
         IN  <<<<i, e>>>> \o Runs(name, text, e)

\* list(detector.iter_filth(text, document_name=document_name))
DetectorIterFilth(name, text, document_name) ==
    LET runs == Runs(name, text, 0)
    IN  [i \in DOMAIN runs |->
            Filth(runs[i][1], runs[i][2], document_name, FilthType(name), None)]

\* list(detector.iter_filth_documents(documents)) of a detector that has it:
\* what it finds in each document, in the order of the documents
RECURSIVE DetectorIterFilthDocuments(_, _)
DetectorIterFilthDocuments(name, items) ==
    IF items = <<>> THEN <<>>
    ELSE DetectorIterFilth(name, Head(items).text, Head(items).name)
         \o DetectorIterFilthDocuments(name, Tail(items))

\* post_processor.process_filth(filth_list)
\*   "replacer": replacement_string = "{{" + (replacement_string or types) + "}}"
\*   "remover":  replacement_string = ""
process_filth(name, filth_list) ==
    [i \in DOMAIN filth_list |->
        [filth_list[i] EXCEPT !.replacement_string =
            IF name = "remover" THEN <<>>
            ELSE <<123, 123>>
                 \o (IF @ = None THEN JoinPlus(filth_list[i].kinds) ELSE @)
                 \o <<125, 125>>]]

----------------------------------------------------------------------------
(* The pipelines.  Each operator gives what the method returns (or yields) *)
(* and the process_filth invocations it makes.  `dets` is                  *)
(* self._detectors, `pps` self._post_processors.                           *)

\* Scrubber._post_process_filth_list from the i-th post-processor on
RECURSIVE PostProcessFrom(_, _, _)
PostProcessFrom(pps, i, filth_list) ==
    IF i > Len(pps) THEN [filths |-> filth_list, calls |-> <<>>]
    ELSE LET output == process_filth(pps[i].name, filth_list)
             rest == PostProcessFrom(pps, i + 1, output)
         IN  [filths |-> rest.filths,
              calls |-> <<[name |-> pps[i].name, input |-> filth_list,
                           output |-> output]>> \o rest.calls]

post_process_filth_list(pps, filth_list) == PostProcessFrom(pps, 1, filth_list)

\* lines 237-243: what the detectors not excluded yield, in registry order
RECURSIVE AllFilths(_, _, _, _)
AllFilths(dets, text, document_name, exclude_detectors) ==
    IF dets = <<>> THEN <<>>
    ELSE (IF Head(dets).name \notin exclude_detectors
          THEN DetectorIterFilth(Head(dets).name, text, document_name)
          ELSE <<>>)
         \o AllFilths(Tail(dets), text, document_name, exclude_detectors)

\* Scrubber.iter_filth; exclude_detectors=None is the empty set
iter_filth(dets, pps, text, document_name, run_post_processors, exclude_detectors) ==
    LET all_filths == AllFilths(dets, text, document_name, exclude_detectors)
    IN  IF run_post_processors
        THEN post_process_filth_list(pps, merge_filths(all_filths))
        ELSE [filths |-> merge_filths(all_filths), calls |-> <<>>]

\* Scrubber.clean(text)
clean(dets, pps, text) ==
    LET collected == iter_filth(dets, pps, text, None, TRUE, {})
        processed == post_process_filth_list(pps, collected.filths)
    IN  [ret |-> replace_text(text, processed.filths, None),
         calls |-> collected.calls \o processed.calls]

\* lines 165-175: iter_filth over every document, in the order of the documents
RECURSIVE IterFilthEach(_, _, _, _, _)
IterFilthEach(dets, pps, items, run_post_processors, exclude_detectors) ==
    IF items = <<>> THEN [filths |-> <<>>, calls |-> <<>>]
    ELSE LET first == iter_filth(dets, pps, Head(items).text, Head(items).name,
                                 run_post_processors, exclude_detectors)
             rest == IterFilthEach(dets, pps, Tail(items), run_post_processors,
                                   exclude_detectors)
         IN  [filths |-> first.filths \o rest.filths,
              calls |-> first.calls \o rest.calls]

\* Scrubber.clean_documents(documents); documents.items are the documents in
\* order, [name, text] each, the name of a list's document being str(index)
clean_documents(dets, pps, documents) ==
    IF documents.shape \notin {"list", "dict"}
    THEN [raised |-> "TypeError", ret |-> <<>>, calls |-> <<>>]
    ELSE LET collected == IterFilthEach(dets, pps, documents.items, TRUE, {})
             processed == post_process_filth_list(pps, collected.filths)
         IN  [raised |-> "returned",
              ret |-> [i \in DOMAIN documents.items |->
                          [name |-> documents.items[i].name,
                           text |-> replace_text(documents.items[i].text,
                                                 processed.filths,
                                                 documents.items[i].name)]],
              calls |-> collected.calls \o processed.calls]

\* lines 270-278: the detectors that have iter_filth_documents
DocumentDetectorsNames(dets) ==
    {dets[i].name : i \in {k \in DOMAIN dets : dets[k].joint}}

RECURSIVE DocumentDetectorsFilth(_, _)
DocumentDetectorsFilth(dets, items) ==
    IF dets = <<>> THEN <<>>
    ELSE (IF Head(dets).joint
          THEN DetectorIterFilthDocuments(Head(dets).name, items)
          ELSE <<>>)
         \o DocumentDetectorsFilth(Tail(dets), items)

\* list(Scrubber.iter_filth_documents(documents, run_post_processors))
iter_filth_documents(dets, pps, documents, run_post_processors) ==
    IF documents.shape \notin {"list", "dict"}
    THEN [raised |-> "TypeError", filths |-> <<>>, calls |-> <<>>]
    ELSE LET document_detectors_names == DocumentDetectorsNames(dets)
             filth_list == DocumentDetectorsFilth(dets, documents.items)
             each == IterFilthEach(dets, pps, documents.items, FALSE,
                                   document_detectors_names)
         IN  IF run_post_processors
             THEN LET processed ==
                          post_process_filth_list(pps, filth_list \o each.filths)
                  IN  [raised |-> "returned", filths |-> processed.filths,
                       calls |-> processed.calls]
             ELSE [raised |-> "returned", filths |-> each.filths, calls |-> <<>>]

----------------------------------------------------------------------------
(* Calls of the pipelines on a constructed Scrubber. *)

\* the lists of distinct elements of S
DistinctLists(S) ==
    {l \in UNION {[1..k -> S] : k \in 0..Cardinality(S)} :
        \A i, j \in DOMAIN l : l[i] = l[j] => i = j}

TextsUpTo(n) == UNION {[1..k -> Alphabet] : k \in 0..n}

\* a list of texts as documents: the names are "0", "1", ...
ListDocuments(texts) ==
    [shape |-> "list",
     items |-> [i \in DOMAIN texts |-> [name |-> StrOfIndex(i - 1), text |-> texts[i]]]]

\* a dict of texts as documents, in the order of its items()
DictDocuments(names, texts) ==
    [shape |-> "dict",
     items |-> [i \in DOMAIN names |-> [name |-> names[i], text |-> texts[i]]]]

\* where to cut a text of n characters into k texts (some may be empty)
Cuts(k, n) ==
    {c \in [1..(k - 1) -> 0..n] : \A i, j \in 1..(k - 1) : i <= j => c[i] <= c[j]}

SplitAt(flat, cuts, k) ==
    [i \in 1..k |->
        SubSeq(flat, (IF i = 1 THEN 0 ELSE cuts[i - 1]) + 1,
                     IF i = k THEN Len(flat) ELSE cuts[i])]

\* `call` is the call op(documents, run_post_processors) for a list of up to
\* MaxDocs texts, a dict of texts named "a" and "b", or a value of another
\* type; the texts have at most MaxChars characters in all
CallOnDocuments(op, run_post_processors) ==
    \/ \E k \in 0..MaxDocs, flat \in TextsUpTo(MaxChars) :
       \E cuts \in Cuts(k, Len(flat)) :
           /\ k = 0 => flat = <<>>
           /\ call = [NoCall EXCEPT !.op = op,
                         !.documents = ListDocuments(SplitAt(flat, cuts, k)),
                         !.run_post_processors = run_post_processors]
    \/ \E names \in DistinctLists({DocA, DocB}), flat \in TextsUpTo(MaxChars) :
       \E cuts \in Cuts(Len(names), Len(flat)) :
           /\ names = <<>> => flat = <<>>
           /\ call = [NoCall EXCEPT !.op = op,
                         !.documents = DictDocuments(names, SplitAt(flat, cuts, Len(names))),
                         !.run_post_processors = run_post_processors]
    \/ call = [NoCall EXCEPT !.op = op,
                             !.documents = [shape |-> "other", items |-> <<>>],
                             !.run_post_processors = run_post_processors]

\* Scrubber(detector_list, post_processor_list) with lists of instances of
\* distinct names; joint: the names of the detectors with iter_filth_documents
Constructed(detector_list, joint, post_processor_list) ==
    /\ detectors = [i \in DOMAIN detector_list |->
                       [name |-> detector_list[i], joint |-> detector_list[i] \in joint]]
    /\ post_processors = [i \in DOMAIN post_processor_list |->
                             PostProcessorObject(post_processor_list[i])]
    /\ log = <<>>
    /\ ret = <<>>
    /\ pp_calls = <<>>
    /\ pc = "ready"

\* a Scrubber and the arguments of a clean or clean_documents call
InitClean ==
    /\ \E dl \in DistinctLists(DetectorCatalog), pl \in DistinctLists(PostProcessorCatalog) :
           Constructed(dl, {}, pl)
    /\ \/ \E text \in TextsUpTo(MaxPos) :
              call = [NoCall EXCEPT !.op = "clean", !.text = text]
       \/ CallOnDocuments("clean_documents", TRUE)

\* a Scrubber without post-processors and the arguments of a clean_documents call
InitDocuments ==
    /\ \E dl \in DistinctLists(DetectorCatalog) : Constructed(dl, {}, <<>>)
    /\ CallOnDocuments("clean_documents", TRUE)

\* a Scrubber and the arguments of an iter_filth_documents call
InitIter ==
    /\ \E dl \in DistinctLists(DetectorCatalog), joint \in SUBSET DetectorCatalog,
          pl \in {<<>>, <<"replacer">>} :
           Constructed(dl, joint, pl)
    /\ \E run_post_processors \in BOOLEAN :
           CallOnDocuments("iter_filth_documents", run_post_processors)

\* Scrubber.clean(text)
Clean ==
    /\ pc = "ready"
    /\ call.op = "clean"
    /\ LET r == clean(detectors, post_processors, call.text)
       IN  /\ ret' = r.ret
           /\ pp_calls' = r.calls
    /\ pc' = "done"
    /\ UNCHANGED <<detectors, post_processors, log, call>>

\* Scrubber.clean_documents(documents)
CleanDocuments ==
    /\ pc = "ready"
    /\ call.op = "clean_documents"
    /\ LET r == clean_documents(detectors, post_processors, call.documents)
       IN  /\ ret' = r.ret
           /\ pp_calls' = r.calls
           /\ pc' = IF r.raised = "returned" THEN "done" ELSE r.raised
    /\ UNCHANGED <<detectors, post_processors, log, call>>

\* list(Scrubber.iter_filth_documents(documents, run_post_processors))
IterFilthDocuments ==
    /\ pc = "ready"
    /\ call.op = "iter_filth_documents"
    /\ LET r == iter_filth_documents(detectors, post_processors, call.documents,
                                     call.run_post_processors)
       IN  /\ ret' = r.filths
           /\ pp_calls' = r.calls
           /\ pc' = IF r.raised = "returned" THEN "done" ELSE r.raised
    /\ UNCHANGED <<detectors, post_processors, log, call>>

NextClean == Clean \/ CleanDocuments

SpecClean == InitClean /\ [][NextClean]_vars

NextDocuments == CleanDocuments

SpecDocuments == InitDocuments /\ [][NextDocuments]_vars

NextIter == IterFilthDocuments

SpecIter == InitIter /\ [][NextIter]_vars

----------------------------------------------------------------------------
(* Properties of _merge_filths. *)

Merged == pc = "done" /\ call.op = "_merge_filths"

SameDocument(a, b) == a.document_name = b.document_name

OneSpanning(a, b) ==
    /\ Len(ret) = 1
    /\ ret[1].beg = Min(a.beg, b.beg)
    /\ ret[1].end = Max(a.end, b.end)

\* C3 as stated: whenever a.end >= b.begin for two Filth a, b of one document,
\* merging the list of the two yields one Filth from min(begin) to max(end).
C3_AsStated ==
    (Merged /\ Len(call.filth_list) = 2) =>
        LET a == call.filth_list[1]
            b == call.filth_list[2]
        IN  (SameDocument(a, b) /\ a.end >= b.beg) => OneSpanning(a, b)

\* C3 amended: whenever a.end >= b.begin and b.end >= a.begin (the two overlap
\* or touch) for two Filth a, b of one document, merging the list of the two,
\* in either order, yields one Filth from min(begin) to max(end).
C3_OverlapOrTouchMerges ==
    (Merged /\ Len(call.filth_list) = 2) =>
        LET a == call.filth_list[1]
            b == call.filth_list[2]
        IN  (SameDocument(a, b) /\ a.end >= b.beg /\ b.end >= a.beg)
                => OneSpanning(a, b)

\* two Filth that only touch, the later one given first, have been merged
C3_Witness ==
    /\ Merged
    /\ Len(call.filth_list) = 2
    /\ SameDocument(call.filth_list[1], call.filth_list[2])
    /\ call.filth_list[2].beg < call.filth_list[2].end
    /\ call.filth_list[2].end = call.filth_list[1].beg
    /\ call.filth_list[1].beg < call.filth_list[1].end
    /\ Len(ret) = 1

\* None before every name, names in ascending order of str
DocumentBefore(d1, d2) ==
    IF d1 = None THEN d2 # None
    ELSE d2 # None /\ StrLess(d1, d2)

\* the offsets inside some Filth of the document
Covered(filth_list, document_name) ==
    UNION {filth_list[i].beg..(filth_list[i].end - 1) :
              i \in {k \in DOMAIN filth_list :
                          filth_list[k].document_name = document_name}}

\* C7: the Filth _merge_filths yields are grouped by document, None first and
\* the names ascending; two consecutive ones of a document are strictly apart
\* (x.end < y.beg); each document's covered positions are those of the input;
\* an empty input yields nothing.
C7_MergedSequence ==
    Merged =>
        /\ \A i, j \in DOMAIN ret :
              i < j => \/ SameDocument(ret[i], ret[j])
                       \/ DocumentBefore(ret[i].document_name, ret[j].document_name)
        /\ \A i \in DOMAIN ret :
              (i < Len(ret) /\ SameDocument(ret[i], ret[i + 1]))
                  => ret[i].end < ret[i + 1].beg
        /\ \A d \in MergeDocs : Covered(ret, d) = Covered(call.filth_list, d)
        /\ \A i \in DOMAIN ret :
              \E k \in DOMAIN call.filth_list : SameDocument(ret[i], call.filth_list[k])
        /\ (call.filth_list = <<>> => ret = <<>>)

\* a named document's Filth given first, then two overlapping Filth of the
\* None document, the later one first: None's merged Filth comes out first
C7_Witness ==
    /\ Merged
    /\ Len(call.filth_list) = 3
    /\ call.filth_list[1].document_name = DocB
    /\ call.filth_list[2].document_name = None
    /\ call.filth_list[3].document_name = None
    /\ call.filth_list[3].beg < call.filth_list[2].beg
    /\ call.filth_list[2].beg < call.filth_list[3].end
    /\ Len(ret) = 2
    /\ ret[1].document_name = None
    /\ ret[2].document_name = DocB

----------------------------------------------------------------------------
(* Properties of _replace_text. *)

Replaced == pc = "done" /\ call.op = "_replace_text"

Replacement(f) ==
    IF f.replacement_string # None THEN f.replacement_string ELSE ReplaceWith(f)

\* text[0:s1.beg] + r1 + text[s1.end:s2.beg] + r2 + ... + rn + text[sn.end:]
Rebuilt(text, s) ==
    IF s = <<>> THEN text
    ELSE Slice(text, 0, s[1].beg)
         \o Concat([i \in DOMAIN s |->
                 Replacement(s[i])
                 \o (IF i < Len(s) THEN Slice(text, s[i].end, s[i + 1].beg)
                                   ELSE SliceFrom(text, s[i].end))])

OfTheDocument(s, document_name) ==
    \A i \in DOMAIN s : s[i].document_name = document_name

\* ascending by beg, and each Filth ends where the next begins or before
SortedApart(s) ==
    \A i \in DOMAIN s :
        i < Len(s) => (s[i].beg <= s[i + 1].beg /\ s[i].end <= s[i + 1].beg)

\* C5: for a list s1..sn of the document's Filth, ascending by beg and not
\* overlapping, _replace_text returns text[0:s1.beg] + r1 + text[s1.end:s2.beg]
\* + ... + rn + text[sn.end:]; for the empty list, the text.
C5_Rebuild ==
    (/\ Replaced
     /\ OfTheDocument(call.filth_list, call.document_name)
     /\ SortedApart(call.filth_list))
        => ret = Rebuilt(call.text, call.filth_list)

\* What does hold of _replace_text: the statement of C5 for the lists in which
\* beg is strictly ascending (no two Filth begin at one offset).
C5_StrictlyAscending ==
    (/\ Replaced
     /\ OfTheDocument(call.filth_list, call.document_name)
     /\ SortedApart(call.filth_list)
     /\ \A i \in DOMAIN call.filth_list :
            i < Len(call.filth_list)
                => call.filth_list[i].beg < call.filth_list[i + 1].beg)
        => ret = Rebuilt(call.text, call.filth_list)

----------------------------------------------------------------------------
(* Properties of the registries. *)

NoDuplicateNames(registry) ==
    \A i, j \in DOMAIN registry : registry[i].name = registry[j].name => i = j

\* the argument is a Detector (PostProcessor) class, an instance of one, or a
\* str the catalog resolves
Conforming(arg, catalog) ==
    \/ arg.is = "type" /\ arg.subclass
    \/ arg.is = "instance"
    \/ arg.is = "str" /\ arg.name \in catalog

Entry(op, name, raised) == [op |-> op, name |-> name, raised |-> raised]

\* add(n) raised KeyError, then remove(n) returned, then add(n) was called
ReAdded(add, remove, n) ==
    /\ log = <<Entry(add, n, "KeyError"), Entry(remove, n, "returned")>>
    /\ call.op = add
    /\ call.arg.name = n

C4_Step ==
    /\ NoDuplicateNames(detectors')
    /\ NoDuplicateNames(post_processors')
    /\ (/\ call'.op = "add_detector"
        /\ Conforming(call'.arg, DetectorCatalog)
        /\ call'.arg.name \in Names(detectors))
            => (ret' = "KeyError" /\ UNCHANGED <<detectors, post_processors>>)
    /\ (/\ call'.op = "add_post_processor"
        /\ Conforming(call'.arg, PostProcessorCatalog)
        /\ call'.arg.name \in Names(post_processors))
            => (ret' = "KeyError" /\ UNCHANGED <<detectors, post_processors>>)
    /\ \A n \in DetectorCatalog :
          (ReAdded("add_detector", "remove_detector", n))'
              => (ret' = "returned" /\ n \in Names(detectors'))
    /\ \A n \in PostProcessorCatalog :
          (ReAdded("add_post_processor", "remove_post_processor", n))'
              => (ret' = "returned" /\ n \in Names(post_processors'))

\* C4: after every add or remove no two registered detectors and no two
\* registered post-processors share a name; an add of a name already registered
\* raises KeyError and leaves both registries as they were; and the same add,
\* made again after that name was removed, returns with the name registered.
C4_UniqueNames == [][C4_Step]_vars

\* the add of a detector that raised KeyError, repeated after its removal
C4_Witness ==
    \E n \in DetectorCatalog :
        /\ ReAdded("add_detector", "remove_detector", n)
        /\ ret = "returned"
        /\ Len(detectors) = 2

\* C6: an add_detector / add_post_processor whose argument is a class that is
\* no subclass, or a value that is neither an instance, a class nor a str,
\* raises TypeError.
C6_AsStated ==
    (/\ call.op \in {"add_detector", "add_post_processor"}
     /\ \/ call.arg.is = "type" /\ ~call.arg.subclass
        \/ call.arg.is = "other")
        => ret = "TypeError"

----------------------------------------------------------------------------
(* Properties of clean and clean_documents. *)

Cleaned == pc = "done" /\ call.op = "clean"

CleanedDocuments == pc = "done" /\ call.op = "clean_documents"

\* what clean_documents returns for the document when it is the only one
CleanedAlone(item) ==
    clean_documents(detectors, post_processors,
                    DictDocuments(<<item.name>>, <<item.text>>)).ret[1].text

\* C1: without post-processors, the text clean_documents returns for a document
\* is the one it returns for that document alone under the same name: it is a
\* function of the document's own name, text and Filth, whatever the other
\* documents of the call are.
C1_Isolation ==
    (CleanedDocuments /\ post_processors = <<>>) =>
        \A i \in DOMAIN call.documents.items :
            /\ ret[i].name = call.documents.items[i].name
            /\ ret[i].text = CleanedAlone(call.documents.items[i])

\* two documents of different texts, Filth found and replaced in both
C1_Witness ==
    /\ CleanedDocuments
    /\ post_processors = <<>>
    /\ Len(call.documents.items) = 2
    /\ call.documents.items[1].text # call.documents.items[2].text
    /\ ret[1].text # call.documents.items[1].text
    /\ ret[2].text # call.documents.items[2].text

\* the orders in which the registered detectors can have been registered
Permuted(dets) ==
    {[i \in DOMAIN dets |-> dets[f[i]]] :
        f \in {g \in [DOMAIN dets -> DOMAIN dets] :
                  \A i, j \in DOMAIN dets : g[i] = g[j] => i = j}}

\* C2: clean(text) returns the same str whatever the order in which the
\* detectors were registered.
C2_AsStated ==
    Cleaned =>
        \A dets \in Permuted(detectors) :
            clean(dets, post_processors, call.text).ret = ret

\* the Filth of all the documents of the call, merged
RECURSIVE AllFilthsOfItems(_)
AllFilthsOfItems(items) ==
    IF items = <<>> THEN <<>>
    ELSE AllFilths(detectors, Head(items).text, Head(items).name, {})
         \o AllFilthsOfItems(Tail(items))

MergedOfCall ==
    IF call.op = "clean"
    THEN merge_filths(AllFilths(detectors, call.text, None, {}))
    ELSE merge_filths(AllFilthsOfItems(call.documents.items))

\* C8: within one clean or clean_documents call every registered post-processor
\* is invoked exactly once, in registry order, the first on the complete merged
\* Filth list of the call and each next one on the output of the one before,
\* and the text is rebuilt from the last one's output.
C8_AsStated ==
    (Cleaned \/ CleanedDocuments) =>
        /\ Len(pp_calls) = Len(post_processors)
        /\ \A i \in DOMAIN pp_calls :
              /\ pp_calls[i].name = post_processors[i].name
              /\ pp_calls[i].input =
                    IF i = 1 THEN MergedOfCall ELSE pp_calls[i - 1].output
        /\ LET handed == IF pp_calls = <<>> THEN MergedOfCall
                         ELSE pp_calls[Len(pp_calls)].output
           IN  IF call.op = "clean"
               THEN ret = replace_text(call.text, handed, None)
               ELSE \A i \in DOMAIN ret :
                        ret[i].text = replace_text(call.documents.items[i].text,
                                                   handed, ret[i].name)

----------------------------------------------------------------------------
(* Properties of iter_filth_documents. *)

Iterated == pc = "done" /\ call.op = "iter_filth_documents"

NoPostProcessing == ~call.run_post_processors \/ post_processors = <<>>

\* the Filth is inside a yielded Filth of its document
Represented(f) ==
    \E i \in DOMAIN ret :
        /\ ret[i].document_name = f.document_name
        /\ ret[i].beg <= f.beg
        /\ f.end <= ret[i].end

\* C9: with post-processing skipped or no post-processor registered, every Filth
\* a registered detector finds in a document is inside a Filth that
\* iter_filth_documents yields for that document.
C9_AsStated ==
    (Iterated /\ NoPostProcessing) =>
        \A d \in DOMAIN detectors, k \in DOMAIN call.documents.items :
            LET item == call.documents.items[k]
                found == DetectorIterFilth(detectors[d].name, item.text, item.name)
            IN  \A n \in DOMAIN found : Represented(found[n])

\* C10: with post-processing skipped or no post-processor registered, the Filth
\* iter_filth_documents yields for one document are in ascending order of beg
\* and do not overlap.
C10_AsStated ==
    (Iterated /\ NoPostProcessing) =>
        \A i, j \in DOMAIN ret :
            (i < j /\ SameDocument(ret[i], ret[j]))
                => (ret[i].beg <= ret[j].beg /\ ret[i].end <= ret[j].beg)

====
